---- MODULE Spec2Model ----
(***************************************************************************)
(* go-mocket: the mock registry (MockCatcher), its entries (FakeResponse), *)
(* the resolution algorithm (FindResponse) and the statement execution     *)
(* emulation (FakeStmt.ExecContext / QueryContext).                        *)
(*                                                                         *)
(* Strings are sequences of one-character strings.  An entry is a record   *)
(* living in the heap `fr` (a sequence indexed by the entry's address);    *)
(* the registry's list `Mocks` is a sequence of addresses, as the Go slice *)
(* is a slice of pointers.                                                 *)
(***************************************************************************)
EXTENDS Integers, Sequences, FiniteSets, TLC

\* ----------------------------------------------------------------- strings
\* A character is a one-element string; a keyword of a statement ("SELECT")
\* is one element too.  "\\v" stands for the vertical tab.
\* unicode.IsSpace, on the characters of the model's alphabet.
IsSpace(c) == c \in {" ", "\t", "\\v"}

\* The class \s of Go's regexp: [\t\n\f\r ], which has no vertical tab.
IsRegexpSpace(c) == c \in {" ", "\t"}

RECURSIVE SkipRegexpSpace(_)
SkipRegexpSpace(s) ==
    IF s = <<>> THEN s
    ELSE IF IsRegexpSpace(Head(s)) THEN SkipRegexpSpace(Tail(s)) ELSE s

RECURSIVE TrimLeft(_)
TrimLeft(s) ==
    IF s = <<>> THEN s
    ELSE IF IsSpace(Head(s)) THEN TrimLeft(Tail(s)) ELSE s

RECURSIVE TrimRight(_)
TrimRight(s) ==
    IF s = <<>> THEN s
    ELSE IF IsSpace(s[Len(s)]) THEN TrimRight(SubSeq(s, 1, Len(s) - 1)) ELSE s

\* strings.TrimSpace
TrimSpace(s) == TrimRight(TrimLeft(s))

\* whitespaces.ReplaceAllString(s, " ") for the regexp \s+
RECURSIVE ReplaceAllWhitespace(_)
ReplaceAllWhitespace(s) ==
    IF s = <<>> THEN s
    ELSE IF IsRegexpSpace(Head(s))
         THEN <<" ">> \o ReplaceAllWhitespace(SkipRegexpSpace(s))
    ELSE <<Head(s)>> \o ReplaceAllWhitespace(Tail(s))

normalize(origin) == ReplaceAllWhitespace(TrimSpace(origin))

\* strings.Contains
Contains(s, sub) ==
    \E i \in 0..(Len(s) - Len(sub)) : SubSeq(s, i + 1, i + Len(sub)) = sub

\* strings.Index for a one-character needle; 0 when absent.
RECURSIVE IndexFrom(_, _, _)
IndexFrom(s, c, i) ==
    IF i > Len(s) THEN 0
    ELSE IF s[i] = c THEN i ELSE IndexFrom(s, c, i + 1)

\* strings.Replace(s, old, new, 1) for a one-character old.
Replace1(s, old, new) ==
    LET i == IndexFrom(s, old, 1)
    IN  IF i = 0 THEN s
        ELSE SubSeq(s, 1, i - 1) \o new \o SubSeq(s, i + 1, Len(s))

\* --------------------------------------------------------- argument values
\* A driver value carries its dynamic type, as reflect.DeepEqual compares it.
I64(n) == [t |-> "int64", v |-> n]
GoInt(n) == [t |-> "int", v |-> n]
Text(s) == [t |-> "string", v |-> s]

\* The rendering of a value under the verb %v.
Render(val) == IF val.t = "string" THEN val.v ELSE <<ToString(val.v)>>

\* The rendering of a value inside a fmt error annotation: type=value.
Annot(val) == <<val.t, "=">> \o Render(val)

\* fmt.Sprintf(format, val) with exactly one operand.  `used` tells whether
\* the operand has been consumed.  The annotations fmt writes for a misuse
\* start with one token ("%!(EXTRA ", "%!v(MISSING)", "%!(NOVERB)", "%!c(").
RECURSIVE Fmt(_, _, _)
Fmt(f, val, used) ==
    IF f = <<>> THEN
        IF used THEN <<>> ELSE <<"%!(EXTRA ">> \o Annot(val) \o <<")">>
    ELSE IF Head(f) # "%" THEN <<Head(f)>> \o Fmt(Tail(f), val, used)
    ELSE IF Len(f) = 1 THEN <<"%!(NOVERB)">> \o Fmt(<<>>, val, used)
    ELSE IF f[2] = "%" THEN <<"%">> \o Fmt(Tail(Tail(f)), val, used)
    ELSE IF f[2] = "v" THEN
        IF used THEN <<"%!v(MISSING)">> \o Fmt(Tail(Tail(f)), val, used)
        ELSE Render(val) \o Fmt(Tail(Tail(f)), val, TRUE)
    ELSE
        IF used THEN <<"%!", f[2], "(MISSING)">> \o Fmt(Tail(Tail(f)), val, used)
        ELSE <<"%!", f[2], "(">> \o Annot(val) \o <<")">>
                 \o Fmt(Tail(Tail(f)), val, TRUE)

Sprintf(format, val) == Fmt(format, val, FALSE)

\* The loop of completeStatement and of QueryContext: for each argument,
\* the first "?" becomes "%v" and the text is formatted with the argument.
RECURSIVE SubstituteArgs(_, _)
SubstituteArgs(text, args) ==
    IF args = <<>> THEN text
    ELSE SubstituteArgs(Sprintf(Replace1(text, "?", <<"%", "v">>), Head(args)),
                        Tail(args))

completeStatement(prepareStatment, args) ==
    IF ~Contains(prepareStatment, <<"?">>) \/ Len(args) = 0
    THEN prepareStatment
    ELSE SubstituteArgs(prepareStatment, args)

\* The other completeStatement of the sources (unnamed/part_000): each
\* argument is rendered by its type (%d, %s, %v) and put in place of the
\* first "?" of the text as it stands.
RECURSIVE ReplaceArgs(_, _)
ReplaceArgs(text, args) ==
    IF args = <<>> THEN text
    ELSE ReplaceArgs(Replace1(text, "?", Render(Head(args))), Tail(args))

completeStatementReplace(prepareStatment, args) ==
    IF ~Contains(prepareStatment, <<"?">>) \/ Len(args) = 0
    THEN prepareStatment
    ELSE ReplaceArgs(prepareStatment, args)

\* reflect.DeepEqual on two driver values: same dynamic type, same value.
DeepEqualValue(a, b) == a.t = b.t /\ a.v = b.v

\* reflect.DeepEqual on two non-nil []interface{} slices.
DeepEqual(xs, ys) ==
    /\ Len(xs) = Len(ys)
    /\ \A i \in 1..Len(xs) : DeepEqualValue(xs[i], ys[i])

\* ------------------------------------------------------------------- state
\* A nil pointer, slice, func or error is <<>>; a non-nil one is <<x>>.
Nil == <<>>
Some(x) == <<x>>

VARIABLES
    fr,                    \* heap of FakeResponse objects, indexed by address
    Mocks,                 \* MockCatcher.Mocks: addresses, in slice order
    ReceivedQueries,       \* MockCatcher.ReceivedQueries: key -> count
    NoMatchingQueries,     \* MockCatcher.NoMatchingQueries: key -> count
    PanicOnEmptyResponse,  \* MockCatcher.PanicOnEmptyResponse
    smt,                   \* the FakeStmt a Prepare returned, Nil before
    ret,                   \* what the last resolution or execution returned
    Logging,               \* MockCatcher.Logging
    mu,                    \* MockCatcher.mu: the goroutine holding it, 0 if free
    th                     \* each goroutine's position in the operation it runs

catcher == <<Mocks, ReceivedQueries, NoMatchingQueries, PanicOnEmptyResponse>>
vars == <<fr, Mocks, ReceivedQueries, NoMatchingQueries, PanicOnEmptyResponse,
          smt, ret, Logging, mu, th>>

\* Goroutines calling into the registry at the same time.
NGoroutines == 2
Goroutines == 1..NGoroutines

\* A goroutine outside every operation: pc is where it stands, query, args
\* and key are the locals of the call in flight, tmp is the value it last
\* read from a shared collection, out is what its last call returned and
\* got lists the addresses its FindResponse calls have returned.
IdleGoroutine ==
    [pc |-> "idle", query |-> <<>>, args |-> <<>>, key |-> <<>>,
     tmp |-> <<>>, out |-> <<>>, got |-> <<>>]

\* A step that leaves the logging flag, the mutex and every goroutine where
\* they are: an operation run as a whole, or the setter of an entry.
Alone == UNCHANGED <<Logging, mu, th>>

\* &Exceptions{}
NoExceptions == [HookQueryBadConnection |-> Nil, HookExecBadConnection |-> Nil]

\* &FakeResponse{Exceptions: &Exceptions{}, Response: make(..., 0)}: the object
\* NewMock registers, and the dummy FindResponse returns when nothing matches.
\* mu is the entry's own mutex: the goroutine holding it, 0 if free.
BlankResponse ==
    [Pattern |-> <<>>, MatchPriority |-> 0, Strict |-> FALSE, Args |-> Nil,
     Response |-> <<>>, Once |-> FALSE, Triggered |-> FALSE,
     ExpectedTriggeredTimes |-> 0, TriggeredTimes |-> 0, Callback |-> FALSE,
     RowsAffected |-> 0, LastInsertID |-> 0, Error |-> Nil,
     mu |-> 0, Exceptions |-> Some(NoExceptions)]

\* A FakeResponse struct literal: every field omitted is the zero value, so
\* the embedded *Exceptions is nil.
ZeroResponse == [BlankResponse EXCEPT !.Exceptions = Nil]

EmptyMap == [k \in {} |-> 0]

\* m[k], 0 when k is absent (the value a Go map read yields).
Count(m, k) == IF k \in DOMAIN m THEN m[k] ELSE 0

\* if times, ok := m[k]; ok { m[k] = times + 1 } else { m[k] = 1 }
Increment(m, k) == [x \in DOMAIN m \cup {k} |-> IF x = k THEN Count(m, k) + 1 ELSE m[x]]

RECURSIVE SumOver(_, _)
SumOver(m, keys) ==
    IF keys = {} THEN 0
    ELSE LET k == CHOOSE x \in keys : TRUE
         IN  m[k] + SumOver(m, keys \ {k})

Total(m) == SumOver(m, DOMAIN m)

\* What FindResponse and the statement operations leave in `ret`.
NoRet ==
    [op |-> "none", resp |-> 0, raw |-> <<>>, query |-> <<>>, key |-> <<>>,
     args |-> <<>>,
     kind |-> "none", err |-> "", cols |-> <<>>, rows |-> <<>>,
     id |-> 0, affected |-> 0, callback |-> <<>>]

Init ==
    /\ fr = <<>>
    /\ Mocks = <<>>
    /\ ReceivedQueries = EmptyMap
    /\ NoMatchingQueries = EmptyMap
    /\ PanicOnEmptyResponse = FALSE
    /\ smt = Nil
    /\ ret = NoRet
    /\ Logging = FALSE
    /\ mu = 0
    /\ th = [t \in Goroutines |-> IdleGoroutine]

\* -------------------------------------------------------------- the matcher
\* Mutant: the filter is compared with the leading arguments only.
isArgsMatchPrefix(e, args) ==
    \/ e.Args = Nil
    \/ /\ Len(e.Args[1]) <= Len(args)
       /\ \A i \in 1..Len(e.Args[1]) : DeepEqualValue(e.Args[1][i], args[i])

isArgsMatch(e, args) ==
    LET arguments == [i \in 1..Len(args) |-> args[i]]
    IN  e.Args = Nil \/ DeepEqual(e.Args[1], arguments)

isQueryMatch(e, query) ==
    \/ e.Pattern = <<>>
    \/ e.Strict /\ query = e.Pattern
    \/ ~e.Strict /\ Contains(query, e.Pattern)

IsMatch(e, query, args) ==
    IF e.Once /\ e.Triggered THEN FALSE
    ELSE isQueryMatch(e, query) /\ isArgsMatch(e, args)

\* ------------------------------------------------------------- resolution
\* Mutants of the comparator: one that forgets the priority, one that forgets
\* the pattern length.
LessByLengthOnly(a, b) == Len(a.Pattern) > Len(b.Pattern)

LessByPriorityOnly(a, b) == a.MatchPriority > b.MatchPriority

\* The comparator handed to sort.SliceStable, on two entries.
Less(a, b) ==
    IF a.MatchPriority # b.MatchPriority
    THEN a.MatchPriority > b.MatchPriority
    ELSE Len(a.Pattern) > Len(b.Pattern)

\* One insertion of a stable sort over the heap h: x goes before the first
\* element it is less than, hence after every element it does not precede.
RECURSIVE InsertStable(_, _, _)
InsertStable(h, sorted, x) ==
    IF sorted = <<>> THEN <<x>>
    ELSE IF Less(h[x], h[Head(sorted)]) THEN <<x>> \o sorted
    ELSE <<Head(sorted)>> \o InsertStable(h, Tail(sorted), x)

RECURSIVE SliceStableFrom(_, _, _)
SliceStableFrom(h, sorted, rest) ==
    IF rest = <<>> THEN sorted
    ELSE SliceStableFrom(h, InsertStable(h, sorted, Head(rest)), Tail(rest))

\* sort.SliceStable(mc.Mocks, less)
SliceStable(h, s) == SliceStableFrom(h, <<>>, s)

\* The scan of the sorted list: the address of the first entry that matches,
\* 0 when the loop ends without a match.
RECURSIVE FirstMatch(_, _, _, _)
FirstMatch(h, s, query, args) ==
    IF s = <<>> THEN 0
    ELSE IF IsMatch(h[Head(s)], query, args) THEN Head(s)
    ELSE FirstMatch(h, Tail(s), query, args)

\* Mutant: the mark is never set.
MarkAsTriggeredForgotten(e) == e

MarkAsTriggered(e) == [e EXCEPT !.Triggered = TRUE]

\* Mutant: the counter advances by two.
TriggerTwice(e) == [MarkAsTriggered(e) EXCEPT !.TriggeredTimes = @ + 2]

\* resp.MarkAsTriggered(); resp.TriggeredTimes++
Trigger(e) == [MarkAsTriggered(e) EXCEPT !.TriggeredTimes = @ + 1]

\* Mutant: the unmatched table is never written.
NoMatchingNeverCounted(hit, key) == NoMatchingQueries

\* The unmatched table after the scan: the loop returns on a match, and the
\* count of the completed query is raised only past the loop.
NoMatchingAfter(hit, key) ==
    IF hit = 0 THEN Increment(NoMatchingQueries, key) ELSE NoMatchingQueries

\* The address FindResponse selects in the registry (h, mocks) for a raw
\* query: the query is normalized, the list is sorted, the list is scanned.
Select(h, mocks, rawQuery, args) ==
    FirstMatch(h, SliceStable(h, mocks), normalize(rawQuery), args)

\* Mutant: the flag alone decides, matched or not.
PanicsWhenSet(hit) == PanicOnEmptyResponse

\* if mc.PanicOnEmptyResponse { panic(...) }, reached only past the scan.
Panics(hit) == hit = 0 /\ PanicOnEmptyResponse

\* The whole of FindResponse(query, args) as the values it leaves behind:
\* the sorted list, the heap, the two tables, the address returned (0 for the
\* dummy response) and whether the call panicked instead of returning.
Resolve(rawQuery, args) ==
    LET query == normalize(rawQuery)
        query_with_args == completeStatement(query, args)
        hit == Select(fr, Mocks, rawQuery, args)
    IN  [query |-> query,
         key |-> query_with_args,
         Mocks |-> SliceStable(fr, Mocks),
         Received |-> Increment(ReceivedQueries, query_with_args),
         NoMatching |-> NoMatchingAfter(hit, query_with_args),
         fr |-> IF hit = 0 THEN fr ELSE [fr EXCEPT ![hit] = Trigger(@)],
         resp |-> hit,
         panic |-> Panics(hit)]

\* The response object a resolution r handed back.
Returned(r) == IF r.resp = 0 THEN BlankResponse ELSE r.fr[r.resp]

FindResponse(query, args) ==
    /\ LET r == Resolve(query, args)
       IN  /\ Mocks' = r.Mocks
           /\ fr' = r.fr
           /\ ReceivedQueries' = r.Received
           /\ NoMatchingQueries' = r.NoMatching
           /\ ret' = [NoRet EXCEPT !.op = "FindResponse", !.resp = r.resp,
                                   !.raw = query,
                                   !.query = r.query, !.key = r.key,
                                   !.args = args,
                                   !.kind = IF r.panic THEN "panic" ELSE "response",
                                   !.err = IF r.panic THEN "no response" ELSE ""]
    /\ UNCHANGED <<PanicOnEmptyResponse, smt>>

\* ------------------------------------------------------------ registration
\* Mutant: the pattern is stored as given.
SetPatternRaw(e, query) == [e EXCEPT !.Pattern = query]

\* fr.Pattern = normalize(query): what WithQuery and Attach store.
SetPattern(e, query) == [e EXCEPT !.Pattern = normalize(query)]

NewMock ==
    /\ fr' = Append(fr, BlankResponse)
    /\ Mocks' = Append(Mocks, Len(fr) + 1)
    /\ UNCHANGED <<ReceivedQueries, NoMatchingQueries, PanicOnEmptyResponse, smt, ret>>

\* Attach(list): list holds pointers to objects the caller built from struct
\* literals; each gets its pattern normalized and is appended.
Attach(list) ==
    /\ fr' = fr \o [i \in 1..Len(list) |-> SetPattern(list[i], list[i].Pattern)]
    /\ Mocks' = Mocks \o [i \in 1..Len(list) |-> Len(fr) + i]
    /\ UNCHANGED <<ReceivedQueries, NoMatchingQueries, PanicOnEmptyResponse, smt, ret>>

\* Mutant: the unmatched table survives the Reset.
ResetKeepsNoMatching ==
    /\ Mocks' = <<>>
    /\ ReceivedQueries' = EmptyMap
    /\ UNCHANGED <<fr, NoMatchingQueries, PanicOnEmptyResponse, smt, ret>>

Reset ==
    /\ Mocks' = <<>>
    /\ ReceivedQueries' = EmptyMap
    /\ NoMatchingQueries' = EmptyMap
    /\ UNCHANGED <<fr, PanicOnEmptyResponse, smt, ret>>

\* mc.PanicOnEmptyResponse = b (the field is exported and assigned directly)
SetPanicOnEmptyResponse(b) ==
    /\ PanicOnEmptyResponse # b
    /\ PanicOnEmptyResponse' = b
    /\ UNCHANGED <<fr, Mocks, ReceivedQueries, NoMatchingQueries, smt, ret>>

\* ---------------------------------------------------------------- setters
\* A setter is called on a pointer the caller holds; the entry may or may not
\* (after a Reset) still be in the registry's list.  A call that stores what
\* the field already holds is a stuttering step.
Set(a, e) ==
    /\ a \in 1..Len(fr)
    /\ fr[a] # e
    /\ fr' = [fr EXCEPT ![a] = e]
    /\ UNCHANGED <<catcher, smt, ret>>

WithQuery(a, query) == Set(a, SetPattern(fr[a], query))

StrictMatch(a) == Set(a, [fr[a] EXCEPT !.Strict = TRUE])

WithArgs(a, values) ==
    Set(a, IF Len(values) > 0 THEN [fr[a] EXCEPT !.Args = Some(values)] ELSE fr[a])

WithReply(a, response) == Set(a, [fr[a] EXCEPT !.Response = response])

OneTime(a) == Set(a, [fr[a] EXCEPT !.Once = TRUE])

\* fr.Exceptions.HookExecBadConnection = func() bool { return true }
\* (a nil *Exceptions makes the assignment panic and leaves the entry as is)
WithExecException(a) ==
    /\ a \in 1..Len(fr)
    /\ fr[a].Exceptions # Nil
    /\ Set(a, [fr[a] EXCEPT !.Exceptions[1].HookExecBadConnection = Some(TRUE)])

WithQueryException(a) ==
    /\ a \in 1..Len(fr)
    /\ fr[a].Exceptions # Nil
    /\ Set(a, [fr[a] EXCEPT !.Exceptions[1].HookQueryBadConnection = Some(TRUE)])

WithCallback(a) == Set(a, [fr[a] EXCEPT !.Callback = TRUE])

WithRowsNum(a, num) == Set(a, [fr[a] EXCEPT !.RowsAffected = num])

WithID(a, id) == Set(a, [fr[a] EXCEPT !.LastInsertID = id])

WithError(a, err) == Set(a, [fr[a] EXCEPT !.Error = Some(err)])

WithExpectedTriggerTimes(a, expected) ==
    Set(a, [fr[a] EXCEPT !.ExpectedTriggeredTimes = expected])

WithMatchPriority(a, priority) == Set(a, [fr[a] EXCEPT !.MatchPriority = priority])

\* ------------------------------------------------------------- statements
\* The keyword a statement starts with, in upper case: the command of the
\* FakeStmt that Prepare builds for the text.
Upper(word) ==
    CASE word = "select" -> "SELECT"
      [] word = "insert" -> "INSERT"
      [] OTHER -> word

CommandOf(q) == IF TrimLeft(q) = <<>> THEN "" ELSE Upper(Head(TrimLeft(q)))

Prepare(q) ==
    /\ smt' = Some([q |-> q, command |-> CommandOf(q), closed |-> FALSE])
    /\ UNCHANGED <<fr, catcher, ret>>

\* if !s.closed { s.closed = true }; return nil.  The statement is one
\* prepared on an open connection, so neither check of lines 29-34 fires.
Close ==
    /\ smt # Nil
    /\ smt' = Some([smt[1] EXCEPT !.closed = TRUE])
    /\ UNCHANGED <<fr, catcher, ret>>

\* A hook is a func() bool: nil, or a predicate with the result it yields.
HookFires(hook) == hook # Nil /\ hook[1]

\* Mutants: each path consults the hook of the other path.
ExecFailsOnQueryHook(f) ==
    f.Exceptions # Nil /\ HookFires(f.Exceptions[1].HookQueryBadConnection)

QueryFailsOnExecHook(f) ==
    f.Exceptions # Nil /\ HookFires(f.Exceptions[1].HookExecBadConnection)

\* fResp.Exceptions != nil && ...HookExecBadConnection != nil && ...()
ExecFails(f) ==
    f.Exceptions # Nil /\ HookFires(f.Exceptions[1].HookExecBadConnection)

\* fResp.Exceptions != nil && ...HookQueryBadConnection != nil && ...()
QueryFails(f) ==
    f.Exceptions # Nil /\ HookFires(f.Exceptions[1].HookQueryBadConnection)

\* The invocation fResp.Callback(smt.q, args), when a callback is set.
Invoke(f, q, args) == IF f.Callback THEN <<[q |-> q, args |-> args]>> ELSE <<>>

\* The registry half of an execution: what FindResponse left behind.
Resolved(r) ==
    /\ Mocks' = r.Mocks
    /\ fr' = r.fr
    /\ ReceivedQueries' = r.Received
    /\ NoMatchingQueries' = r.NoMatching

\* What a statement operation returns before it reaches FindResponse.
Called(op, args) == [NoRet EXCEPT !.op = op, !.args = args]

\* What it returns past FindResponse, for the resolution r of the text q.
Answered(op, q, args, r) ==
    [Called(op, args) EXCEPT !.resp = r.resp, !.raw = q, !.query = r.query,
                             !.key = r.key]

\* The switch on smt.command that ends ExecContext.
ExecResult(base, f, command, id) ==
    CASE command = "INSERT" ->
            [base EXCEPT !.kind = "result", !.affected = 1,
                         !.id = IF f.LastInsertID = 0 THEN id ELSE f.LastInsertID]
      [] command \in {"UPDATE", "DELETE"} ->
            [base EXCEPT !.kind = "result", !.affected = f.RowsAffected]
      [] OTHER ->
            [base EXCEPT !.kind = "error", !.err = "unimplemented"]

\* Mutant: the closed flag is looked at only after the resolution.
ExecContextClosedLate(args, id) ==
    /\ smt # Nil
    /\ Resolved(Resolve(smt[1].q, args))
    /\ ret' = [Called("ExecContext", args) EXCEPT !.kind = "error",
                                                  !.err = "errClosed"]
    /\ UNCHANGED <<PanicOnEmptyResponse, smt>>

\* id is what rand.Int63() yields should the INSERT branch ask for it.
ExecContext(args, id) ==
    /\ smt # Nil
    /\ IF smt[1].closed
       THEN /\ ret' = [Called("ExecContext", args) EXCEPT !.kind = "error",
                                                         !.err = "errClosed"]
            /\ UNCHANGED <<fr, catcher, smt>>
       ELSE LET q == smt[1].q
                r == Resolve(q, args)
                f == Returned(r)
                base == Answered("ExecContext", q, args, r)
            IN  /\ Resolved(r)
                /\ ret' = IF r.panic
                          THEN [base EXCEPT !.kind = "panic", !.err = "no response"]
                          ELSE IF ExecFails(f)
                          THEN [base EXCEPT !.kind = "error", !.err = "ErrBadConn"]
                          ELSE ExecResult([base EXCEPT !.callback = Invoke(f, q, args)],
                                          f, smt[1].command, id)
                /\ UNCHANGED <<PanicOnEmptyResponse, smt>>

\* The orders in which ranging over the keys of a Go map may yield them.
Orders(keys) ==
    { s \in [1..Cardinality(keys) -> keys] :
        \A i, j \in 1..Cardinality(keys) : s[i] = s[j] => i = j }

\* The column names collected from the first record.
ColumnOrders(response) ==
    IF Len(response) > 0 THEN Orders(DOMAIN response[1]) ELSE { <<>> }

\* record[col].(string) panics when the record has no such key (the value is
\* a nil interface) or holds a value of another type.
ConversionPanics(response, cols) ==
    \E i \in 1..Len(response), k \in 1..Len(cols) :
        \/ cols[k] \notin DOMAIN response[i]
        \/ response[i][cols[k]].t # "string"

\* The rows of the cursor: each record projected on the columns.
CursorRows(response, cols) ==
    [i \in 1..Len(response) |-> [k \in 1..Len(cols) |-> response[i][cols[k]].v]]

\* The loop at the head of QueryContext, which rewrites smt.q.
Substituted(q, args) == IF Len(args) > 0 THEN SubstituteArgs(q, args) ELSE q

QueryContext(args) ==
    /\ smt # Nil
    /\ IF smt[1].closed
       THEN /\ ret' = [Called("QueryContext", args) EXCEPT !.kind = "error",
                                                          !.err = "errClosed"]
            /\ UNCHANGED <<fr, catcher, smt>>
       ELSE LET q == Substituted(smt[1].q, args)
                r == Resolve(q, args)
                f == Returned(r)
                base == Answered("QueryContext", q, args, r)
            IN  /\ smt' = Some([smt[1] EXCEPT !.q = q])
                /\ Resolved(r)
                /\ \E cols \in ColumnOrders(f.Response) :
                      ret' = IF r.panic
                             THEN [base EXCEPT !.kind = "panic", !.err = "no response"]
                             ELSE IF QueryFails(f)
                             THEN [base EXCEPT !.kind = "error", !.err = "ErrBadConn"]
                             ELSE IF ConversionPanics(f.Response, cols)
                             THEN [base EXCEPT !.kind = "panic",
                                               !.err = "interface conversion"]
                             ELSE [base EXCEPT !.kind = "rows", !.cols = cols,
                                               !.rows = CursorRows(f.Response, cols),
                                               !.callback = Invoke(f, q, args)]
                /\ UNCHANGED PanicOnEmptyResponse

\* =========================================================================
\* Resolution order: priority, then pattern length.
\* =========================================================================
\* Entries allocated, and resolutions between two Resets, in SpecOrder.
OrderEntries == 2
OrderCalls == 2

OrderQueries ==
    { <<"s", " ", "a">>,
      <<"s", " ", "a", "=", "?">> }

OrderPatterns ==
    { <<>>,
      <<"s", " ", "a">>,
      <<"s", " ", "a", "=">> }

OrderPriorities == {0, 1}

OrderLists == { <<[ZeroResponse EXCEPT !.Pattern = <<"s", " ", " ", "a">>,
                                       !.MatchPriority = 1]>> }

NextOrder ==
    \/ Len(fr) < OrderEntries /\ NewMock /\ Alone
    \/ \E list \in OrderLists : Len(fr) + Len(list) <= OrderEntries /\ Attach(list) /\ Alone
    \/ Reset /\ Alone
    \/ \E a \in 1..Len(fr), p \in OrderPatterns : WithQuery(a, p) /\ Alone
    \/ \E a \in 1..Len(fr), k \in OrderPriorities : WithMatchPriority(a, k) /\ Alone
    \/ \E a \in 1..Len(fr) : OneTime(a) /\ Alone
    \/ \E q \in OrderQueries :
          Total(ReceivedQueries) < OrderCalls /\ FindResponse(q, <<>>) /\ Alone

SpecOrder == Init /\ [][NextOrder]_vars

\* A step that performed one resolution (FindResponse ran to its end).
ResolutionStep == Total(ReceivedQueries') = Total(ReceivedQueries) + 1

\* The addresses in the registry's list.
Registered == { Mocks[i] : i \in 1..Len(Mocks) }

\* The entries that were eligible and matched the resolution the step made.
Matching == { a \in Registered : IsMatch(fr[a], ret'.query, ret'.args) }

\* C1: in every resolution, when two eligible entries both match and one has
\* the strictly higher MatchPriority, the lower one is not the entry returned
\* (and an entry is returned), whatever the pattern lengths and whatever the
\* order of registration.
HigherPriorityWins ==
    [][ResolutionStep =>
          \A a \in Matching, b \in Matching :
              fr[a].MatchPriority > fr[b].MatchPriority
                  => ret'.resp # b /\ ret'.resp \in Matching]_vars

\* A resolution returned entry a although the earlier registered entry b has
\* a longer pattern that matches too: a's priority is the higher one.
HigherPriorityWinsWitness ==
    /\ ret.op = "FindResponse"
    /\ ret.resp # 0
    /\ \E b \in Registered :
          /\ b < ret.resp
          /\ ~fr[b].Once
          /\ isQueryMatch(fr[b], ret.query)
          /\ Len(fr[b].Pattern) > Len(fr[ret.resp].Pattern)
          /\ fr[b].MatchPriority < fr[ret.resp].MatchPriority

\* C2: in every resolution, when two eligible entries of equal MatchPriority
\* both match, the one with the shorter pattern is not the entry returned; so
\* the entry returned has the longest pattern among the matching entries of
\* its priority, and an empty pattern is returned only when no entry of its
\* priority with a non-empty pattern matches.
LongerPatternWins ==
    [][ResolutionStep =>
          \A a \in Matching, b \in Matching :
              /\ fr[a].MatchPriority = fr[b].MatchPriority
              /\ Len(fr[a].Pattern) > Len(fr[b].Pattern)
              => ret'.resp # b /\ ret'.resp \in Matching]_vars

\* A resolution returned the later registered entry, whose pattern is the
\* longer of two matching patterns of one priority, the other being empty.
LongerPatternWinsWitness ==
    /\ ret.op = "FindResponse"
    /\ ret.resp # 0
    /\ \E b \in Registered :
          /\ b < ret.resp
          /\ ~fr[b].Once
          /\ fr[b].Pattern = <<>>
          /\ fr[ret.resp].Pattern # <<>>
          /\ fr[b].MatchPriority = fr[ret.resp].MatchPriority

\* =========================================================================
\* Bookkeeping: the tables, the trigger marks, Once, the no-match outcome.
\* =========================================================================
\* Entries allocated, and resolutions between two Resets, in Spec.
MaxEntries == 2
MaxCalls == 2

Queries ==
    { <<"s", " ", "a">>,
      <<"s", " ", "a", "=", "?">> }

Patterns == { <<"s", " ", "a", "=">> }

ArgLists == { <<>>, <<I64(1)>> }

\* The fixture of TestResponses/Once.
Lists == { <<[ZeroResponse EXCEPT !.Pattern = <<"s", " ", "a">>, !.Once = TRUE]>> }

Next ==
    \/ Len(fr) < MaxEntries /\ NewMock /\ Alone
    \/ \E list \in Lists : Len(fr) + Len(list) <= MaxEntries /\ Attach(list) /\ Alone
    \/ Reset /\ Alone
    \/ \E b \in BOOLEAN : SetPanicOnEmptyResponse(b) /\ Alone
    \/ \E a \in 1..Len(fr), p \in Patterns : WithQuery(a, p) /\ Alone
    \/ \E a \in 1..Len(fr) : OneTime(a) /\ Alone
    \/ \E q \in Queries, args \in ArgLists :
          Total(ReceivedQueries) < MaxCalls /\ FindResponse(q, args) /\ Alone

Spec == Init /\ [][Next]_vars

\* The object the last returned pointer refers to: the registered entry, or
\* the fresh dummy response of a resolution that matched nothing.
ReturnedObject == IF ret.resp = 0 THEN BlankResponse ELSE fr[ret.resp]

\* The entries whose pattern and argument filter accept the resolution the
\* step made, exhausted Once entries included.
Accepting ==
    { a \in Registered :
        isQueryMatch(fr[a], ret'.query) /\ isArgsMatch(fr[a], ret'.args) }

\* table2 is table1 with the count of key raised by exactly one.
RaisedByOne(table1, table2, key) ==
    /\ DOMAIN table2 = DOMAIN table1 \cup {key}
    /\ table2[key] = Count(table1, key) + 1
    /\ \A k \in DOMAIN table1 : k # key => table2[k] = table1[k]

\* The step left every entry but those in `except` as it was.
EntriesKept(except) ==
    /\ Len(fr') = Len(fr)
    /\ \A a \in 1..Len(fr) : a \notin except => fr'[a] = fr[a]

\* A no-match resolution: nothing is returned but the dummy, the unmatched
\* count of the completed query goes up by one, no entry changes.
CountedUnmatched ==
    /\ ret'.resp = 0
    /\ RaisedByOne(NoMatchingQueries, NoMatchingQueries', ret'.key)
    /\ EntriesKept({})

\* The call returned the default outcome: empty row set, no error.
DefaultOutcome ==
    /\ ret'.kind = "response"
    /\ ReturnedObject'.Response = <<>>
    /\ ReturnedObject'.Error = Nil

\* C3 as stated: after a resolution a Once entry has TriggeredTimes at most
\* 1, and a resolution that only exhausted Once entries would have matched
\* gets the default empty outcome and is counted as unmatched.
OnceAsStated ==
    [][ResolutionStep =>
          /\ \A a \in Registered :
                fr[a].Once /\ fr[a].TriggeredTimes <= 1
                    => fr'[a].TriggeredTimes <= 1
          /\ (Accepting # {} /\ \A a \in Accepting : fr[a].Once /\ fr[a].Triggered)
                => CountedUnmatched /\ DefaultOutcome]_vars

\* C3, amended: a resolution never returns an entry that is Once and already
\* Triggered and does not touch its counter, and it marks the entry it returns
\* as Triggered, so an entry that is Once before its first match is returned
\* at most once; a resolution that only exhausted Once entries would have
\* matched is counted as unmatched, changes no entry, and gets the default
\* empty outcome unless PanicOnEmptyResponse is set, in which case it panics.
OnceAtMostOnce ==
    [][ResolutionStep =>
          /\ \A a \in Registered :
                /\ fr[a].Once /\ fr[a].Triggered
                      => ret'.resp # a /\ fr'[a] = fr[a]
                /\ ret'.resp = a
                      => fr'[a].Triggered
                         /\ fr'[a].TriggeredTimes = fr[a].TriggeredTimes + 1
                /\ fr[a].Once /\ fr[a].TriggeredTimes <= 1
                      => fr'[a].TriggeredTimes <= 1
          /\ (Accepting # {} /\ \A a \in Accepting : fr[a].Once /\ fr[a].Triggered)
                => /\ CountedUnmatched
                   /\ IF PanicOnEmptyResponse THEN ret'.kind = "panic"
                      ELSE DefaultOutcome]_vars

\* A Once entry was returned once, and the next resolution, which its pattern
\* accepts and no other entry does, got the dummy and was counted unmatched.
OnceAtMostOnceWitness ==
    /\ ret.op = "FindResponse"
    /\ ret.resp = 0
    /\ ret.kind = "response"
    /\ Count(NoMatchingQueries, ret.key) = 1
    /\ Count(ReceivedQueries, ret.key) = 2
    /\ \E a \in Registered :
          /\ fr[a].Once /\ fr[a].Triggered /\ fr[a].TriggeredTimes = 1
          /\ isQueryMatch(fr[a], ret.query) /\ isArgsMatch(fr[a], ret.args)

\* C5 as stated: a resolution that no eligible entry matches returns the
\* default outcome, is counted as unmatched once, and changes no entry.
NoMatchAsStated ==
    [][ResolutionStep /\ Matching = {} => CountedUnmatched /\ DefaultOutcome]_vars

\* C5, amended: a resolution that no eligible entry matches (the registry may
\* be empty) raises the unmatched count of the completed query by exactly
\* one, leaves every other unmatched count and every entry's Triggered flag
\* and TriggeredTimes as they were, and returns an outcome with an empty row
\* set and no error when PanicOnEmptyResponse is off; when it is on, the call
\* panics after the counting.
NoMatchIsCounted ==
    [][ResolutionStep /\ Matching = {} =>
          /\ CountedUnmatched
          /\ IF PanicOnEmptyResponse THEN ret'.kind = "panic"
             ELSE DefaultOutcome]_vars

\* A query was resolved twice against a registry whose only entry does not
\* match it: both are counted, the entry is untouched, the dummy came back.
NoMatchIsCountedWitness ==
    /\ ret.op = "FindResponse"
    /\ ret.resp = 0
    /\ ret.kind = "response"
    /\ Count(NoMatchingQueries, ret.key) = 2
    /\ Registered # {}
    /\ \A a \in Registered :
          ~fr[a].Triggered /\ fr[a].TriggeredTimes = 0 /\ ~fr[a].Once

\* C6: a resolution that returns entry E raises the received count of the
\* completed query by exactly one and E.TriggeredTimes by exactly one, and
\* leaves the unmatched table, every other received count and every other
\* entry as they were.
MatchIsCounted ==
    [][ResolutionStep /\ ret'.resp # 0 =>
          /\ ret'.resp \in Registered
          /\ ret'.key = completeStatement(ret'.query, ret'.args)
          /\ RaisedByOne(ReceivedQueries, ReceivedQueries', ret'.key)
          /\ NoMatchingQueries' = NoMatchingQueries
          /\ fr'[ret'.resp].TriggeredTimes = fr[ret'.resp].TriggeredTimes + 1
          /\ EntriesKept({ret'.resp})]_vars

\* The same completed query was received for the second time and matched an
\* entry for the second time, while another key and another entry exist.
MatchIsCountedWitness ==
    /\ ret.op = "FindResponse"
    /\ ret.resp # 0
    /\ Count(ReceivedQueries, ret.key) = 2
    /\ fr[ret.resp].TriggeredTimes = 2
    /\ Len(Mocks) = 2
    /\ ret.key # ret.query

\* =========================================================================
\* The match predicate: pattern, strictness, argument filter.
\* =========================================================================
\* Entries allocated, and resolutions between two Resets, in SpecMatch.
MatchEntries == 2
MatchCalls == 1

MatchQueries ==
    { <<"s", " ", "a">>,
      <<"s", " ", "a", "=", "?">> }

MatchPatterns == { <<"s", " ", "a">> }

MatchArgLists == { <<>>, <<I64(1)>>, <<I64(1), I64(2)>> }

\* WithArgs(int64(1)), WithArgs(int64(2))
MatchFilters == { <<I64(1)>>, <<I64(2)>> }

NextMatch ==
    \/ Len(fr) < MatchEntries /\ NewMock /\ Alone
    \/ Reset /\ Alone
    \/ \E a \in 1..Len(fr), p \in MatchPatterns : WithQuery(a, p) /\ Alone
    \/ \E a \in 1..Len(fr) : StrictMatch(a) /\ Alone
    \/ \E a \in 1..Len(fr), f \in MatchFilters : WithArgs(a, f) /\ Alone
    \/ \E q \in MatchQueries, args \in MatchArgLists :
          Total(ReceivedQueries) < MatchCalls /\ FindResponse(q, args) /\ Alone

SpecMatch == Init /\ [][NextMatch]_vars

\* What the claim calls a match, written out: (a) on the pattern, (b) on the
\* argument filter.
PatternAccepts(e, query) ==
    \/ Len(e.Pattern) = 0
    \/ e.Strict /\ e.Pattern = query
    \/ ~e.Strict /\ \E i \in 1..(Len(query) + 1), j \in 0..Len(query) :
                        SubSeq(query, i, j) = e.Pattern

FilterAccepts(e, args) ==
    \/ e.Args = Nil
    \/ /\ Len(e.Args[1]) = Len(args)
       /\ \A i \in 1..Len(args) : e.Args[1][i] = args[i]

\* The position of address a in the list s, 0 when absent.
Position(s, a) == IF \E i \in 1..Len(s) : s[i] = a
                  THEN CHOOSE i \in 1..Len(s) : s[i] = a
                  ELSE 0

\* C7: in every resolution the entry returned is the first entry of the
\* sorted list that is eligible and for which (a) and (b) hold, and the dummy
\* is returned exactly when (a) and (b) hold for no eligible entry: an
\* eligible entry matches if and only if (a) and (b) hold.
MatchIffPatternAndFilter ==
    [][ResolutionStep =>
          LET good == { a \in Registered :
                          /\ ~(fr[a].Once /\ fr[a].Triggered)
                          /\ PatternAccepts(fr[a], ret'.query)
                          /\ FilterAccepts(fr[a], ret'.args) }
          IN  /\ ret'.resp = 0 <=> good = {}
              /\ ret'.resp # 0 =>
                    /\ ret'.resp \in good
                    /\ \A b \in good :
                          Position(Mocks', ret'.resp) <= Position(Mocks', b)]_vars

\* A strict entry whose pattern equals the query was returned for the
\* arguments (1, 2), passing over an entry placed before it whose pattern
\* accepts the query but whose filter (1) is only a prefix of the arguments.
MatchIffPatternAndFilterWitness ==
    /\ ret.op = "FindResponse"
    /\ ret.resp # 0
    /\ ret.args = <<I64(1), I64(2)>>
    /\ fr[ret.resp].Strict
    /\ fr[ret.resp].Pattern = ret.query
    /\ ret.query # <<>>
    /\ \E b \in Registered :
          /\ Position(Mocks, b) < Position(Mocks, ret.resp)
          /\ fr[b].Args = Some(<<I64(1)>>)
          /\ isQueryMatch(fr[b], ret.query)

\* =========================================================================
\* Normalization of patterns and queries.
\* =========================================================================
\* Length of the raw texts, entries allocated and resolutions between two
\* Resets in SpecNormalize.
NormLen == 3
NormEntries == 1
NormCalls == 1

NormAlphabet == {"a", " ", "\t", "\\v"}

\* Every text over the alphabet of length at most n.
RECURSIVE TextsUpTo(_)
TextsUpTo(n) ==
    IF n = 0 THEN { <<>> }
    ELSE LET shorter == TextsUpTo(n - 1)
         IN  shorter \cup { Append(t, c) : t \in shorter, c \in NormAlphabet }

NormTexts == TextsUpTo(NormLen)

NextNormalize ==
    \/ Len(fr) < NormEntries /\ NewMock /\ Alone
    \/ \E p \in NormTexts :
          /\ Len(fr) < NormEntries
          /\ Attach(<<[ZeroResponse EXCEPT !.Pattern = p, !.Strict = TRUE]>>)
          /\ Alone
    \/ Reset /\ Alone
    \/ \E a \in 1..Len(fr), p \in NormTexts : WithQuery(a, p) /\ Alone
    \/ \E q \in NormTexts :
          Total(ReceivedQueries) < NormCalls /\ FindResponse(q, <<>>) /\ Alone

SpecNormalize == Init /\ [][NextNormalize]_vars

\* C10: normalize is idempotent, and the entry that registering a pattern p
\* leaves (by WithQuery or by Attach) is the entry that registering
\* normalize(p) leaves, so no later resolution tells the two apart (both are
\* facts about texts alone, and are evaluated where no entry is allocated);
\* every allocated entry holds a normalized pattern, which registering again
\* leaves as it is; and a query selects the entry its normalized form
\* selects, so two queries with one normalized form select the same entry.
NormalizedFormIsEquivalent ==
    /\ Len(fr) = 0 =>
          \A p \in NormTexts :
              /\ normalize(normalize(p)) = normalize(p)
              /\ SetPattern(ZeroResponse, p) = SetPattern(ZeroResponse, normalize(p))
              /\ SetPattern(BlankResponse, p) = SetPattern(BlankResponse, normalize(p))
    /\ \A a \in 1..Len(fr) :
          /\ fr[a].Pattern = normalize(fr[a].Pattern)
          /\ SetPattern(fr[a], fr[a].Pattern) = fr[a]
    /\ normalize(ret.raw) = ret.query
    /\ normalize(ret.query) = ret.query
    /\ Select(fr, Mocks, ret.raw, ret.args) = Select(fr, Mocks, ret.query, ret.args)

\* A strict entry, whose pattern has a blank inside, was returned for a query
\* that was not handed over in normalized form.
NormalizedFormIsEquivalentWitness ==
    /\ ret.op = "FindResponse"
    /\ ret.resp # 0
    /\ ret.raw # ret.query
    /\ fr[ret.resp].Strict
    /\ fr[ret.resp].Pattern = <<"a", " ", "a">>
    /\ Count(ReceivedQueries, <<"a", " ", "a">>) = 1

\* =========================================================================
\* Statement execution: errors, exception hooks, the row cursor.
\* =========================================================================
\* Entries allocated, and executions between two Resets, in SpecExec; the
\* largest value rand.Int63() yields there.
ExecEntries == 1
ExecCalls == 2
RandMax == 1

ExecStatements ==
    { <<"SELECT", " ", "a">>,
      <<"INSERT", " ", "a">>,
      <<"DELETE", " ", "a">>,
      <<"CREATE", " ", "a">> }

\* multiReply of the tests, and the same two records the other way round.
MultiReply ==
    << [name |-> Text("FirstLast")],
       [name |-> Text("FirstLast"), age |-> Text("50")] >>

ShortRowReply ==
    << [name |-> Text("FirstLast"), age |-> Text("50")],
       [name |-> Text("FirstLast")] >>

\* commonReply of the tests.
CommonReply == << [name |-> Text("FirstLast"), age |-> Text("30")] >>

ExecReplies == { CommonReply, MultiReply, ShortRowReply }

\* A once-only DELETE fixture, and an entry whose read hook declines.
ExecLists ==
    { <<[ZeroResponse EXCEPT !.Pattern = <<"DELETE">>, !.Once = TRUE,
                             !.RowsAffected = 3]>>,
      <<[ZeroResponse EXCEPT !.Exceptions =
            Some([NoExceptions EXCEPT !.HookQueryBadConnection = Some(FALSE)])]>> }

NextExec ==
    \/ Len(fr) < ExecEntries /\ NewMock /\ Alone
    \/ \E list \in ExecLists : Len(fr) + Len(list) <= ExecEntries /\ Attach(list) /\ Alone
    \/ Reset /\ Alone
    \/ \E a \in 1..Len(fr), response \in ExecReplies : WithReply(a, response) /\ Alone
    \/ \E a \in 1..Len(fr) : WithError(a, "ErrNoRows") /\ Alone
    \/ \E a \in 1..Len(fr) : WithExecException(a) /\ Alone
    \/ \E a \in 1..Len(fr) : WithQueryException(a) /\ Alone
    \/ \E q \in ExecStatements : Prepare(q) /\ Alone
    \/ Close /\ Alone
    \/ \E id \in 0..RandMax :
          Total(ReceivedQueries) < ExecCalls /\ ExecContext(<<>>, id) /\ Alone
    \/ Total(ReceivedQueries) < ExecCalls /\ QueryContext(<<>>) /\ Alone

SpecExec == Init /\ [][NextExec]_vars

\* A step in which a statement operation went through FindResponse.
StatementStep ==
    ResolutionStep /\ ret'.op \in {"ExecContext", "QueryContext"}

\* The entry the step resolved to, as the operation read it.
EntryOfStep == fr'[ret'.resp]

\* C4: every statement execution, on the query path and on the exec path,
\* that resolves to an entry configured with an explicit Error returns
\* exactly that error and neither a row cursor nor a scalar result, whatever
\* Response rows, RowsAffected or LastInsertID the entry carries.
ErrorAsStated ==
    [][ StatementStep /\ ret'.resp # 0 /\ EntryOfStep.Error # Nil
          => /\ ret'.kind = "error"
             /\ ret'.err = EntryOfStep.Error[1] ]_vars

HookOnlyExec(f) ==
    /\ f.Exceptions # Nil
    /\ f.Exceptions[1].HookExecBadConnection # Nil
    /\ f.Exceptions[1].HookQueryBadConnection = Nil

HookOnlyQuery(f) ==
    /\ f.Exceptions # Nil
    /\ f.Exceptions[1].HookQueryBadConnection # Nil
    /\ f.Exceptions[1].HookExecBadConnection = Nil

ReadCommands == {"SELECT"}
MutatingCommands == {"INSERT", "UPDATE", "DELETE"}

BrokenConnection == ret'.kind = "error" /\ ret'.err = "ErrBadConn"

\* C8 as stated: the triggers follow the command of the statement, on
\* whichever path it runs: a write-path trigger alone never fails a read
\* command, a read-path trigger alone never fails a mutating command, and a
\* trigger whose predicate is true fails the commands of its own direction.
HooksAsStated ==
    [][ StatementStep /\ ret'.resp # 0
          => LET f == EntryOfStep
                 command == smt'[1].command
             IN  /\ HookOnlyExec(f) /\ command \in ReadCommands
                        => ~BrokenConnection
                 /\ HookOnlyQuery(f) /\ command \in MutatingCommands
                        => ~BrokenConnection
                 /\ ExecFails(f) /\ command \in MutatingCommands
                        => BrokenConnection
                 /\ QueryFails(f) /\ command \in ReadCommands
                        => BrokenConnection ]_vars

\* C8: the triggers follow the execution path, whatever the command of the
\* statement: an execution through ExecContext fails with the
\* broken-connection error exactly when the entry it resolves to has a
\* write-path trigger whose predicate is true, and an execution through
\* QueryContext exactly when it has a read-path trigger whose predicate is
\* true; so a write-path trigger alone never fails an execution through
\* QueryContext and a read-path trigger alone never fails one through
\* ExecContext.
HooksFollowPath ==
    [][ StatementStep /\ ret'.resp # 0
          => LET f == EntryOfStep
                 hook == IF f.Exceptions = Nil THEN Nil
                         ELSE IF ret'.op = "ExecContext"
                         THEN f.Exceptions[1].HookExecBadConnection
                         ELSE f.Exceptions[1].HookQueryBadConnection
             IN  BrokenConnection <=> hook = Some(TRUE) ]_vars

\* A mutating command sent through QueryContext and failed by an entry whose
\* only trigger is the read-path one.
HooksFollowPathWitness ==
    /\ ret.op = "QueryContext"
    /\ ret.kind = "error"
    /\ ret.err = "ErrBadConn"
    /\ smt # Nil
    /\ smt[1].command \in MutatingCommands
    /\ ret.resp \in 1..Len(fr)
    /\ HookOnlyQuery(fr[ret.resp])
    /\ Count(ReceivedQueries, ret.key) > 0

\* C9: for every resolved row set the cursor has one row per configured row
\* in the configured order, its columns are the keys of the first row, and a
\* later row lacking one of them yields an empty cell: building the cursor
\* never fails because a row is missing a column.
CursorAsStated ==
    [][ (StatementStep /\ ret'.op = "QueryContext" /\ ret'.resp # 0
           /\ ~BrokenConnection)
          => LET response == EntryOfStep.Response
             IN  /\ ret'.kind = "rows"
                 /\ Len(ret'.rows) = Len(response)
                 /\ Len(response) > 0 =>
                       /\ ret'.cols \in Orders(DOMAIN response[1])
                       /\ \A i \in 1..Len(response), k \in 1..Len(ret'.cols) :
                             ret'.rows[i][k] =
                                IF ret'.cols[k] \in DOMAIN response[i]
                                THEN response[i][ret'.cols[k]].v
                                ELSE "" ]_vars

\* =========================================================================
\* Callbacks of statement executions.
\* =========================================================================
\* Entries allocated, and executions between two Resets, in SpecCallback.
CallbackEntries == 1
CallbackCalls == 2
\* Longest statement text, in tokens, that QueryContext is still run on.
CallbackTextLen == 5

CallbackStatements ==
    { <<"SELECT", " ", "a", "=", "?">>,
      <<"INSERT", " ", "a">>,
      <<"CREATE", " ", "a">> }

CallbackArgLists == { <<>>, <<I64(1)>> }

NextCallback ==
    \/ Len(fr) < CallbackEntries /\ NewMock /\ Alone
    \/ Reset /\ Alone
    \/ \E a \in 1..Len(fr) : WithCallback(a) /\ Alone
    \/ \E a \in 1..Len(fr) : WithExecException(a) /\ Alone
    \/ \E a \in 1..Len(fr) : WithQueryException(a) /\ Alone
    \/ \E q \in CallbackStatements : Prepare(q) /\ Alone
    \/ \E args \in CallbackArgLists :
          Total(ReceivedQueries) < CallbackCalls /\ ExecContext(args, 1) /\ Alone
    \/ \E args \in CallbackArgLists :
          /\ Total(ReceivedQueries) < CallbackCalls
          /\ smt # Nil /\ Len(smt[1].q) <= CallbackTextLen
          /\ QueryContext(args)
          /\ Alone

SpecCallback == Init /\ [][NextCallback]_vars

\* C11: whenever a statement execution resolves to an entry that has a
\* Callback, the callback is invoked exactly once before the execution
\* returns, with the text the statement held when the execution began and
\* the supplied arguments, on every outcome kind (cursor, result,
\* unsupported command, broken connection).
CallbackAsStated ==
    [][ (StatementStep /\ ret'.resp # 0 /\ EntryOfStep.Callback)
          => ret'.callback = <<[q |-> smt[1].q, args |-> ret'.args]>> ]_vars

\* =========================================================================
\* Goroutines: the registry operations as the steps between which another
\* goroutine may run.
\* =========================================================================
\* Mutant: Lock returns without waiting and without taking the mutex.
LockSkipped(t) == mu' = mu

\* mc.mu.Lock(): enabled only while the mutex is free.
Lock(t) == mu = 0 /\ mu' = t

\* mc.mu.Unlock()
Unlock(t) == mu' = 0

\* FindResponse, lines 66-70: the lock is taken, the locals are computed.
FindResponseLock(t, query, args) ==
    /\ th[t].pc = "idle"
    /\ Lock(t)
    /\ th' = [th EXCEPT ![t] = [@ EXCEPT !.pc = "FindResponse:read",
                                         !.query = normalize(query),
                                         !.args = args,
                                         !.key = completeStatement(normalize(query), args)]]
    /\ UNCHANGED <<fr, catcher, smt, ret, Logging>>

\* line 71: times, ok := mc.ReceivedQueries[query_with_args]
FindResponseRead(t) ==
    /\ th[t].pc = "FindResponse:read"
    /\ th' = [th EXCEPT ![t] = [@ EXCEPT !.pc = "FindResponse:write",
                                         !.tmp = Count(ReceivedQueries, th[t].key)]]
    /\ UNCHANGED <<fr, catcher, smt, ret, Logging, mu>>

\* lines 72-74: mc.ReceivedQueries[query_with_args] = times + 1, or 1
FindResponseWrite(t) ==
    /\ th[t].pc = "FindResponse:write"
    /\ ReceivedQueries' =
          [x \in DOMAIN ReceivedQueries \cup {th[t].key} |->
              IF x = th[t].key THEN th[t].tmp + 1 ELSE ReceivedQueries[x]]
    /\ th' = [th EXCEPT ![t] = [@ EXCEPT !.pc = "FindResponse:sort", !.tmp = <<>>]]
    /\ UNCHANGED <<fr, Mocks, NoMatchingQueries, PanicOnEmptyResponse, smt, ret,
                   Logging, mu>>

\* lines 77-83: sort.SliceStable(mc.Mocks, ...)
FindResponseSort(t) ==
    /\ th[t].pc = "FindResponse:sort"
    /\ Mocks' = SliceStable(fr, Mocks)
    /\ th' = [th EXCEPT ![t] = [@ EXCEPT !.pc = "FindResponse:scan"]]
    /\ UNCHANGED <<fr, ReceivedQueries, NoMatchingQueries, PanicOnEmptyResponse,
                   smt, ret, Logging, mu>>

\* lines 85-94: the scan; on a match the entry is marked and counted, the
\* deferred Unlock runs and the entry is returned.
FindResponseScan(t) ==
    /\ th[t].pc = "FindResponse:scan"
    /\ LET hit == FirstMatch(fr, Mocks, th[t].query, th[t].args)
       IN  IF hit = 0
           THEN /\ th' = [th EXCEPT ![t] = [@ EXCEPT !.pc = "FindResponse:unmatched"]]
                /\ UNCHANGED <<fr, mu>>
           ELSE /\ fr' = [fr EXCEPT ![hit] = Trigger(@)]
                /\ Unlock(t)
                /\ th' = [th EXCEPT ![t] = [@ EXCEPT !.pc = "idle", !.out = hit,
                                                     !.got = Append(@, hit)]]
    /\ UNCHANGED <<catcher, smt, ret, Logging>>

\* lines 96-114: the unmatched count is raised; the call panics or returns
\* the dummy response, and the deferred Unlock runs on either way out.
FindResponseUnmatched(t) ==
    /\ th[t].pc = "FindResponse:unmatched"
    /\ NoMatchingQueries' = Increment(NoMatchingQueries, th[t].key)
    /\ Unlock(t)
    /\ th' = [th EXCEPT ![t] = [@ EXCEPT !.pc = "idle",
                                         !.out = IF PanicOnEmptyResponse
                                                 THEN "panic" ELSE 0,
                                         !.got = Append(@, 0)]]
    /\ UNCHANGED <<fr, Mocks, ReceivedQueries, PanicOnEmptyResponse, smt, ret,
                   Logging>>

\* NewMock, lines 119-120.
NewMockLock(t) ==
    /\ th[t].pc = "idle"
    /\ Lock(t)
    /\ th' = [th EXCEPT ![t] = [@ EXCEPT !.pc = "NewMock:append"]]
    /\ UNCHANGED <<fr, catcher, smt, ret, Logging>>

\* lines 121-123: the entry is built and appended, the deferred Unlock runs.
NewMockAppend(t) ==
    /\ th[t].pc = "NewMock:append"
    /\ fr' = Append(fr, BlankResponse)
    /\ Mocks' = Append(Mocks, Len(fr) + 1)
    /\ Unlock(t)
    /\ th' = [th EXCEPT ![t] = [@ EXCEPT !.pc = "idle", !.out = Len(fr) + 1]]
    /\ UNCHANGED <<ReceivedQueries, NoMatchingQueries, PanicOnEmptyResponse, smt,
                   ret, Logging>>

\* Attach(list), line 57: no lock is taken.  The objects of the list are
\* the caller's; tmp holds the addresses still to be appended.
AttachCall(t, list) ==
    /\ th[t].pc = "idle"
    /\ list # <<>>
    /\ fr' = fr \o list
    /\ th' = [th EXCEPT ![t] = [@ EXCEPT !.pc = "Attach:read",
                                         !.tmp = [i \in 1..Len(list) |-> Len(fr) + i]]]
    /\ UNCHANGED <<catcher, smt, ret, Logging, mu>>

\* lines 59-60: r.Pattern = normalize(r.Pattern), and the operand mc.Mocks
\* of the append is read.
AttachRead(t) ==
    /\ th[t].pc = "Attach:read"
    /\ LET r == Head(th[t].tmp)
       IN  /\ fr' = [fr EXCEPT ![r] = SetPattern(@, @.Pattern)]
           /\ th' = [th EXCEPT ![t] = [@ EXCEPT !.pc = "Attach:write",
                                                !.out = Mocks]]
    /\ UNCHANGED <<catcher, smt, ret, Logging, mu>>

\* line 60: mc.Mocks = append(<the slice read>, r)
AttachWrite(t) ==
    /\ th[t].pc = "Attach:write"
    /\ Mocks' = Append(th[t].out, Head(th[t].tmp))
    /\ th' = [th EXCEPT ![t] =
                [@ EXCEPT !.pc = IF Len(th[t].tmp) > 1 THEN "Attach:read" ELSE "idle",
                          !.tmp = Tail(@), !.out = <<>>]]
    /\ UNCHANGED <<fr, ReceivedQueries, NoMatchingQueries, PanicOnEmptyResponse,
                   smt, ret, Logging, mu>>

\* Reset, lines 164-165.
ResetLock(t) ==
    /\ th[t].pc = "idle"
    /\ Lock(t)
    /\ th' = [th EXCEPT ![t] = [@ EXCEPT !.pc = "Reset:Mocks"]]
    /\ UNCHANGED <<fr, catcher, smt, ret, Logging>>

\* line 166
ResetMocks(t) ==
    /\ th[t].pc = "Reset:Mocks"
    /\ Mocks' = <<>>
    /\ th' = [th EXCEPT ![t] = [@ EXCEPT !.pc = "Reset:ReceivedQueries"]]
    /\ UNCHANGED <<fr, ReceivedQueries, NoMatchingQueries, PanicOnEmptyResponse,
                   smt, ret, Logging, mu>>

\* line 167
ResetReceivedQueries(t) ==
    /\ th[t].pc = "Reset:ReceivedQueries"
    /\ ReceivedQueries' = EmptyMap
    /\ th' = [th EXCEPT ![t] = [@ EXCEPT !.pc = "Reset:NoMatchingQueries"]]
    /\ UNCHANGED <<fr, Mocks, NoMatchingQueries, PanicOnEmptyResponse, smt, ret,
                   Logging, mu>>

\* lines 168-169, and the deferred Unlock.
ResetNoMatchingQueries(t) ==
    /\ th[t].pc = "Reset:NoMatchingQueries"
    /\ NoMatchingQueries' = EmptyMap
    /\ Unlock(t)
    /\ th' = [th EXCEPT ![t] = [@ EXCEPT !.pc = "idle", !.out = <<>>]]
    /\ UNCHANGED <<fr, Mocks, ReceivedQueries, PanicOnEmptyResponse, smt, ret,
                   Logging>>

\* FindReceivedQuery(query), line 145: no lock is taken.
FindReceivedQueryCall(t, query) ==
    /\ th[t].pc = "idle"
    /\ th' = [th EXCEPT ![t] = [@ EXCEPT !.pc = "FindReceivedQuery:read",
                                         !.key = query]]
    /\ UNCHANGED <<fr, catcher, smt, ret, Logging, mu>>

\* lines 146-150: times, ok = mc.ReceivedQueries[query]
FindReceivedQueryRead(t) ==
    /\ th[t].pc = "FindReceivedQuery:read"
    /\ th' = [th EXCEPT ![t] =
                [@ EXCEPT !.pc = "idle",
                          !.out = [ok |-> th[t].key \in DOMAIN ReceivedQueries,
                                   times |-> Count(ReceivedQueries, th[t].key)]]]
    /\ UNCHANGED <<fr, catcher, smt, ret, Logging, mu>>

\* FindNoMatchingQuery(query), line 154: no lock is taken.
FindNoMatchingQueryCall(t, query) ==
    /\ th[t].pc = "idle"
    /\ th' = [th EXCEPT ![t] = [@ EXCEPT !.pc = "FindNoMatchingQuery:read",
                                         !.key = query]]
    /\ UNCHANGED <<fr, catcher, smt, ret, Logging, mu>>

\* lines 155-159: times, ok = mc.NoMatchingQueries[query]
FindNoMatchingQueryRead(t) ==
    /\ th[t].pc = "FindNoMatchingQuery:read"
    /\ th' = [th EXCEPT ![t] =
                [@ EXCEPT !.pc = "idle",
                          !.out = [ok |-> th[t].key \in DOMAIN NoMatchingQueries,
                                   times |-> Count(NoMatchingQueries, th[t].key)]]]
    /\ UNCHANGED <<fr, catcher, smt, ret, Logging, mu>>

\* Mutant: an expectation of zero is compared like any other.
RECURSIVE MismatchesWithZero(_, _)
MismatchesWithZero(h, mocks) ==
    IF mocks = <<>> THEN <<>>
    ELSE LET resp == h[Head(mocks)]
             rest == MismatchesWithZero(h, Tail(mocks))
         IN  IF resp.ExpectedTriggeredTimes # resp.TriggeredTimes
             THEN <<[Pattern |-> resp.Pattern,
                     expected |-> resp.ExpectedTriggeredTimes,
                     got |-> resp.TriggeredTimes]>> \o rest
             ELSE rest

\* The entries of the list, in order, whose expectation is set and missed:
\* one message is appended for each.
RECURSIVE Mismatches(_, _)
Mismatches(h, mocks) ==
    IF mocks = <<>> THEN <<>>
    ELSE LET resp == h[Head(mocks)]
             rest == Mismatches(h, Tail(mocks))
         IN  IF resp.ExpectedTriggeredTimes = 0 THEN rest
             ELSE IF resp.ExpectedTriggeredTimes # resp.TriggeredTimes
             THEN <<[Pattern |-> resp.Pattern,
                     expected |-> resp.ExpectedTriggeredTimes,
                     got |-> resp.TriggeredTimes]>> \o rest
             ELSE rest

\* ExpectationOfTriggeredTimesIsMeet, lines 128-129.
ExpectationLock(t) ==
    /\ th[t].pc = "idle"
    /\ Lock(t)
    /\ th' = [th EXCEPT ![t] = [@ EXCEPT !.pc = "Expectation:scan"]]
    /\ UNCHANGED <<fr, catcher, smt, ret, Logging>>

\* lines 131-141: return len(msgs) == 0, msgs; the deferred Unlock runs.
ExpectationScan(t) ==
    /\ th[t].pc = "Expectation:scan"
    /\ Unlock(t)
    /\ LET msgs == Mismatches(fr, Mocks)
       IN  th' = [th EXCEPT ![t] = [@ EXCEPT !.pc = "idle",
                                             !.out = [pass |-> Len(msgs) = 0,
                                                      msgs |-> msgs]]]
    /\ UNCHANGED <<fr, catcher, smt, ret, Logging>>

\* SetLogging(l), lines 38-42, by a caller that runs alone.
SetLogging(l) ==
    /\ mu = 0
    /\ Logging # l
    /\ Logging' = l
    /\ UNCHANGED <<fr, catcher, smt, ret, mu, th>>

\* =========================================================================
\* The registry mutex.
\* =========================================================================
\* Entries allocated, and FindResponse calls of one goroutine, in SpecRace.
RaceEntries == 2
RaceCalls == 1

RaceQueries == { <<"s", " ", "a">> }

RaceLists == { <<[ZeroResponse EXCEPT !.Pattern = <<"s">>]>> }

NextRace ==
    \/ \E t \in Goroutines : Len(fr) < RaceEntries /\ NewMockLock(t)
    \/ \E t \in Goroutines : NewMockAppend(t)
    \/ \E t \in Goroutines, list \in RaceLists :
          Len(fr) + Len(list) <= RaceEntries /\ AttachCall(t, list)
    \/ \E t \in Goroutines : AttachRead(t)
    \/ \E t \in Goroutines : AttachWrite(t)
    \/ \E t \in Goroutines : ResetLock(t)
    \/ \E t \in Goroutines : ResetMocks(t)
    \/ \E t \in Goroutines : ResetReceivedQueries(t)
    \/ \E t \in Goroutines : ResetNoMatchingQueries(t)
    \/ \E t \in Goroutines, q \in RaceQueries :
          Len(th[t].got) < RaceCalls /\ FindResponseLock(t, q, <<>>)
    \/ \E t \in Goroutines : FindResponseRead(t)
    \/ \E t \in Goroutines : FindResponseWrite(t)
    \/ \E t \in Goroutines : FindResponseSort(t)
    \/ \E t \in Goroutines : FindResponseScan(t)
    \/ \E t \in Goroutines : FindResponseUnmatched(t)
    \/ \E t \in Goroutines, q \in RaceQueries : FindReceivedQueryCall(t, q)
    \/ \E t \in Goroutines : FindReceivedQueryRead(t)
    \/ \E t \in Goroutines, q \in RaceQueries : FindNoMatchingQueryCall(t, q)
    \/ \E t \in Goroutines : FindNoMatchingQueryRead(t)
    \/ \E t \in Goroutines : ExpectationLock(t)
    \/ \E t \in Goroutines : ExpectationScan(t)

SpecRace == Init /\ [][NextRace]_vars

\* The goroutine is about to write the entry list, or to read or write a
\* frequency table, or stands between two such accesses of one operation.
Inside(t) == th[t].pc \notin {"idle", "Attach:read"}

\* C12: every write to the entry list and every read or write of the two
\* frequency tables by a public operation happens while the caller holds
\* the registry mutex, so no two operations are inside the shared
\* collections at once.
LockedAccessAsStated ==
    /\ \A t \in Goroutines : Inside(t) => mu = t
    /\ \A t, u \in Goroutines : Inside(t) /\ Inside(u) => t = u

\* =========================================================================
\* Concurrent resolutions.
\* =========================================================================
\* Entries allocated, and FindResponse calls of one goroutine, in
\* SpecParallel.
ParallelEntries == 2
ParallelCalls == 2

ParallelQueries == { <<"s", " ", "a">>, <<"s", " ", "b">> }
ParallelPatterns == { <<"s", " ", "a">> }

\* No goroutine has called into the registry yet.
NothingCalled == mu = 0 /\ \A t \in Goroutines : th[t] = IdleGoroutine

\* The entries are registered and configured first; the goroutines then
\* resolve at the same time, and nothing else runs.
NextParallel ==
    \/ NothingCalled /\ Len(fr) < ParallelEntries /\ NewMock /\ Alone
    \/ \E a \in 1..Len(fr), p \in ParallelPatterns :
          NothingCalled /\ WithQuery(a, p) /\ Alone
    \/ \E a \in 1..Len(fr) : NothingCalled /\ OneTime(a) /\ Alone
    \/ \E t \in Goroutines, q \in ParallelQueries :
          Len(th[t].got) < ParallelCalls /\ FindResponseLock(t, q, <<>>)
    \/ \E t \in Goroutines : FindResponseRead(t)
    \/ \E t \in Goroutines : FindResponseWrite(t)
    \/ \E t \in Goroutines : FindResponseSort(t)
    \/ \E t \in Goroutines : FindResponseScan(t)
    \/ \E t \in Goroutines : FindResponseUnmatched(t)

SpecParallel == Init /\ [][NextParallel]_vars

\* The FindResponse calls that have returned the address a (0: the dummy).
ReturnsOf(a) ==
    { c \in Goroutines \X (1..ParallelCalls) :
        c[2] <= Len(th[c[1]].got) /\ th[c[1]].got[c[2]] = a }

\* The calls that have returned, and those past the write of the received
\* count that have not.
ReturnedCalls == UNION { ReturnsOf(a) : a \in 0..Len(fr) }
CountedInFlight ==
    { t \in Goroutines :
        th[t].pc \in {"FindResponse:sort", "FindResponse:scan",
                      "FindResponse:unmatched"} }

\* C13: under any interleaving of concurrent FindResponse calls, with no
\* Reset, no update is lost or doubled: the received counts sum to the
\* number of calls (those that returned and those already counted), each
\* entry's TriggeredTimes is the number of calls that returned it, the
\* unmatched counts sum to the number of calls that got the dummy, and a
\* Once entry is returned by at most one call.
NoLostUpdate ==
    /\ Total(ReceivedQueries) =
          Cardinality(ReturnedCalls) + Cardinality(CountedInFlight)
    /\ Total(NoMatchingQueries) = Cardinality(ReturnsOf(0))
    /\ \A a \in 1..Len(fr) :
          /\ fr[a].TriggeredTimes = Cardinality(ReturnsOf(a))
          /\ fr[a].Once => Cardinality(ReturnsOf(a)) <= 1

\* Both goroutines sent the same query, which only a Once entry matches:
\* one call got the entry and the other the dummy.
NoLostUpdateWitness ==
    /\ \A t \in Goroutines : th[t].pc = "idle" /\ Len(th[t].got) = 1
    /\ \E a \in 1..Len(fr), k \in DOMAIN ReceivedQueries :
          /\ fr[a].Once
          /\ ReceivedQueries[k] = NGoroutines
          /\ ReturnsOf(a) # {}
          /\ ReturnsOf(0) # {}
          /\ Count(NoMatchingQueries, k) = 1

\* =========================================================================
\* Reset.
\* =========================================================================
\* Entries allocated, and FindResponse calls of one goroutine, in SpecReset.
ResetEntries == 2
ResetCalls == 1

ResetQueries == { <<"s", " ", "a">> }
ResetPatterns == { <<"s", " ", "b">> }
ResetLists == { <<ZeroResponse>> }

NextReset ==
    \/ \E t \in Goroutines : Len(fr) < ResetEntries /\ NewMockLock(t)
    \/ \E t \in Goroutines : NewMockAppend(t)
    \/ \E t \in Goroutines, list \in ResetLists :
          Len(fr) + Len(list) <= ResetEntries /\ AttachCall(t, list)
    \/ \E t \in Goroutines : AttachRead(t)
    \/ \E t \in Goroutines : AttachWrite(t)
    \/ \E t \in Goroutines : ResetLock(t)
    \/ \E t \in Goroutines : ResetMocks(t)
    \/ \E t \in Goroutines : ResetReceivedQueries(t)
    \/ \E t \in Goroutines : ResetNoMatchingQueries(t)
    \/ \E t \in Goroutines, q \in ResetQueries :
          Len(th[t].got) < ResetCalls /\ FindResponseLock(t, q, <<>>)
    \/ \E t \in Goroutines : FindResponseRead(t)
    \/ \E t \in Goroutines : FindResponseWrite(t)
    \/ \E t \in Goroutines : FindResponseSort(t)
    \/ \E t \in Goroutines : FindResponseScan(t)
    \/ \E t \in Goroutines : FindResponseUnmatched(t)
    \/ \E a \in 1..Len(fr), p \in ResetPatterns : WithQuery(a, p) /\ Alone
    \/ \E b \in BOOLEAN : SetPanicOnEmptyResponse(b) /\ Alone
    \/ \E l \in BOOLEAN : SetLogging(l)

SpecReset == Init /\ [][NextReset]_vars

Listed(mocks) == { mocks[i] : i \in 1..Len(mocks) }

InReset(t) ==
    th[t].pc \in {"Reset:Mocks", "Reset:ReceivedQueries", "Reset:NoMatchingQueries"}

InFindResponse(t) ==
    th[t].pc \in {"FindResponse:read", "FindResponse:write", "FindResponse:sort",
                  "FindResponse:scan", "FindResponse:unmatched"}

\* A step of a goroutine that is running Reset.
ResetSteps ==
    \E t \in Goroutines :
        th'[t] # th[t] /\ (InReset(t) \/ th'[t].pc = "Reset:Mocks")

\* The step in which a Reset returns.
ResetReturns == \E t \in Goroutines : InReset(t) /\ th'[t].pc = "idle"

\* The entry a step registers: the one NewMock builds, or the one an Attach
\* is appending.
Registering(a) ==
    \/ a > Len(fr)
    \/ \E t \in Goroutines : th[t].pc = "Attach:write" /\ a = Head(th[t].tmp)

\* C14: Reset leaves the entry list and both tables empty in one atomic
\* step (no resolution runs while some of the three are cleared and others
\* not) and leaves Logging and PanicOnEmptyResponse as they are; after it
\* the list holds only entries registered since, so every resolution is a
\* no-match until one is registered and an entry registered before the Reset
\* never takes part in a resolution again.
ResetAsStated ==
    /\ [](\A t, u \in Goroutines : ~(InReset(t) /\ InFindResponse(u)))
    /\ [][ /\ ResetReturns =>
                /\ Mocks' = <<>>
                /\ ReceivedQueries' = EmptyMap
                /\ NoMatchingQueries' = EmptyMap
           /\ ResetSteps =>
                /\ Logging' = Logging
                /\ PanicOnEmptyResponse' = PanicOnEmptyResponse
           /\ \A a \in Listed(Mocks') \ Listed(Mocks) : Registering(a) ]_vars

\* =========================================================================
\* PanicOnEmptyResponse.
\* =========================================================================
\* C15: a resolution panics exactly when PanicOnEmptyResponse is set at the
\* time of the call and no eligible entry matches; a resolution that matches
\* returns the first matching entry of the sorted list, marked and counted,
\* whatever the flag holds.
PanicIffNoMatch ==
    [][ResolutionStep /\ ret'.op = "FindResponse" =>
          /\ ret'.kind = "panic" <=> (PanicOnEmptyResponse /\ Matching = {})
          /\ Matching # {} =>
                /\ ret'.kind = "response"
                /\ ret'.resp \in Matching
                /\ ret'.resp = Select(fr, Mocks, ret'.raw, ret'.args)
                /\ NoMatchingQueries' = NoMatchingQueries
                /\ fr' = [fr EXCEPT ![ret'.resp] =
                             [@ EXCEPT !.Triggered = TRUE,
                                       !.TriggeredTimes = @ + 1]] ]_vars

\* One resolution matched an entry; a later one, which nothing matched, was
\* made with the flag set and panicked.
PanicIffNoMatchWitness ==
    /\ PanicOnEmptyResponse
    /\ ret.op = "FindResponse"
    /\ ret.kind = "panic"
    /\ Count(NoMatchingQueries, ret.key) = 1
    /\ Total(NoMatchingQueries) = 1
    /\ \E a \in Registered : fr[a].TriggeredTimes = 1

\* =========================================================================
\* The result of an INSERT.
\* =========================================================================
\* Entries allocated, and executions between two Resets, in SpecInsert.
InsertEntries == 2
InsertCalls == 2

InsertStatements ==
    { <<"INSERT", " ", "a">>, <<"INSERT", " ", "b">>, <<"DELETE", " ", "a">> }
InsertPatterns == { <<"INSERT", " ", "a">> }

\* mockedID of the tests.
InsertIDs == { 64 }

NextInsert ==
    \/ Len(fr) < InsertEntries /\ NewMock /\ Alone
    \/ Reset /\ Alone
    \/ \E a \in 1..Len(fr), p \in InsertPatterns : WithQuery(a, p) /\ Alone
    \/ \E a \in 1..Len(fr), id \in InsertIDs : WithID(a, id) /\ Alone
    \/ \E a \in 1..Len(fr) : WithRowsNum(a, 3) /\ Alone
    \/ \E q \in InsertStatements : Prepare(q) /\ Alone
    \/ \E id \in 0..RandMax :
          Total(ReceivedQueries) < InsertCalls /\ ExecContext(<<>>, id) /\ Alone

SpecInsert == Init /\ [][NextInsert]_vars

\* The response object the step's resolution handed back.
ResponseOfStep == IF ret'.resp = 0 THEN BlankResponse ELSE EntryOfStep

\* C16: an INSERT executed through ExecContext returns a result whose
\* affected-row count is 1 and whose insert id is the id configured on the
\* resolved entry when one is configured and otherwise a generated value
\* that is never zero, the no-match default outcome included.
InsertIdAsStated ==
    [][ (StatementStep /\ ret'.op = "ExecContext" /\ smt[1].command = "INSERT")
          => /\ ret'.kind = "result"
             /\ ret'.affected = 1
             /\ IF ResponseOfStep.LastInsertID # 0
                THEN ret'.id = ResponseOfStep.LastInsertID
                ELSE ret'.id # 0 ]_vars

\* =========================================================================
\* ExpectationOfTriggeredTimesIsMeet.
\* =========================================================================
\* Entries allocated, and resolutions between two Resets, in SpecExpect.
ExpectEntries == 2
ExpectCalls == 2

ExpectQueries == { <<"s", " ", "a">>, <<"s", " ", "b">> }
ExpectPatterns == { <<"s", " ", "a">> }
ExpectTimes == { 1 }

NextExpect ==
    \/ Len(fr) < ExpectEntries /\ NewMock /\ Alone
    \/ Reset /\ Alone
    \/ \E a \in 1..Len(fr), p \in ExpectPatterns : WithQuery(a, p) /\ Alone
    \/ \E a \in 1..Len(fr), n \in ExpectTimes :
          WithExpectedTriggerTimes(a, n) /\ Alone
    \/ \E q \in ExpectQueries :
          Total(ReceivedQueries) < ExpectCalls /\ FindResponse(q, <<>>) /\ Alone
    \/ ExpectationLock(1)
    \/ ExpectationScan(1)

SpecExpect == Init /\ [][NextExpect]_vars

\* The registered entries that have an expectation and miss it.
Missed ==
    { a \in Registered :
        /\ fr[a].ExpectedTriggeredTimes # 0
        /\ fr[a].ExpectedTriggeredTimes # fr[a].TriggeredTimes }

\* The report says of entry a what the entry holds.
MessageOf(a) ==
    [Pattern |-> fr[a].Pattern, expected |-> fr[a].ExpectedTriggeredTimes,
     got |-> fr[a].TriggeredTimes]

\* C17: ExpectationOfTriggeredTimesIsMeet returns pass = true exactly when
\* every registered entry with an expectation (a count other than zero) has
\* TriggeredTimes equal to it, and otherwise pass = false with exactly one
\* message per missing entry; it changes nothing in the registry nor in any
\* entry.
ExpectationReport ==
    [][ \A t \in Goroutines :
          th[t].pc = "Expectation:scan" /\ th'[t].pc = "idle"
            => /\ th'[t].out.pass <=> Missed = {}
               /\ Len(th'[t].out.msgs) = Cardinality(Missed)
               /\ \A a \in Missed :
                     \E i \in 1..Len(th'[t].out.msgs) :
                         th'[t].out.msgs[i] = MessageOf(a)
               /\ \A i \in 1..Len(th'[t].out.msgs) :
                     \E a \in Missed : th'[t].out.msgs[i] = MessageOf(a)
               /\ UNCHANGED <<fr, catcher>> ]_vars

\* Two registered entries with an expectation, one met after a resolution
\* and one missed: the report fails with one message.
ExpectationReportWitness ==
    \E t \in Goroutines :
        /\ th[t].pc = "idle"
        /\ DOMAIN th[t].out = {"pass", "msgs"}
        /\ ~th[t].out.pass
        /\ Len(th[t].out.msgs) = 1
        /\ Cardinality(Missed) = 1
        /\ \E a \in Registered \ Missed :
              fr[a].ExpectedTriggeredTimes # 0 /\ fr[a].TriggeredTimes # 0

EarliestRegisteredAsStated ==
    [][ResolutionStep =>
          \A a, b \in Matching :
              ( /\ a < b
                /\ fr[a].MatchPriority = fr[b].MatchPriority
                /\ Len(fr[a].Pattern) = Len(fr[b].Pattern) )
              => ret'.resp # b ]_vars

\* =========================================================================
\* completeStatement.
\* =========================================================================
\* Longest text and longest argument list, entries allocated and
\* resolutions between two Resets, in SpecComplete.
CompleteLen == 3
CompleteArgs == 2
CompleteEntries == 1
CompleteCalls == 1

CompleteAlphabet == { "a", "?", "%" }
CompleteValues == { I64(1), Text(<<"?">>), Text(<<"%">>) }

CompleteTexts ==
    UNION { [1..n -> CompleteAlphabet] : n \in 0..CompleteLen }
CompleteArgLists ==
    UNION { [1..n -> CompleteValues] : n \in 0..CompleteArgs }

\* FindResponse applies completeStatement to the normalized query and keeps
\* the result as the key of both tables.
NextComplete ==
    \/ Len(fr) < CompleteEntries /\ NewMock /\ Alone
    \/ \E q \in CompleteTexts, args \in CompleteArgLists :
          Total(ReceivedQueries) < CompleteCalls /\ FindResponse(q, args) /\ Alone

SpecComplete == Init /\ [][NextComplete]_vars

\* The text with its i-th "?" replaced by the rendering of the i-th
\* argument, for as long as there are both, every other character kept.
RECURSIVE Placed(_, _)
Placed(text, args) ==
    IF text = <<>> THEN <<>>
    ELSE IF Head(text) = "?" /\ args # <<>>
         THEN Render(Head(args)) \o Placed(Tail(text), Tail(args))
    ELSE <<Head(text)>> \o Placed(Tail(text), args)

\* C20: completeStatement(text, args) returns the text unchanged when it has
\* no "?" or args is empty, and otherwise the text with the i-th "?" of the
\* original replaced by the rendering of the i-th argument for i up to the
\* smaller of the two counts, for every argument value, also one whose
\* rendering holds "?" or "%"; stated of both completeStatement functions of
\* the sources.
CompleteAsStated ==
    ret.op = "FindResponse" =>
        /\ ret.key = Placed(ret.query, ret.args)
        /\ completeStatementReplace(ret.query, ret.args)
              = Placed(ret.query, ret.args)

\* =========================================================================
\* Placeholders: the text a statement execution resolves.
\* =========================================================================
\* Entries allocated, and executions between two Resets, in SpecPlaceholder;
\* the longest statement text, in tokens, that QueryContext is still run on.
PlaceholderEntries == 1
PlaceholderCalls == 2
PlaceholderTextLen == 5

PlaceholderStatements ==
    { <<"SELECT", " ", "a", "=", "?">>,
      <<"DELETE", " ", "a", "=", "?">> }

\* The entries get a pattern holding the placeholder or one holding a
\* literal value; the executions pass no argument, int64(1) or int64(2).
NextPlaceholder ==
    \/ Len(fr) < PlaceholderEntries /\ NewMock /\ Alone
    \/ Reset /\ Alone
    \/ \E a \in 1..Len(fr), p \in { <<"a", "=", "?">>, <<"a", "=", "1">> } :
          WithQuery(a, p) /\ Alone
    \/ \E q \in PlaceholderStatements : Prepare(q) /\ Alone
    \/ \E args \in { <<>>, <<I64(1)>>, <<I64(2)>> } :
          Total(ReceivedQueries) < PlaceholderCalls /\ ExecContext(args, 1) /\ Alone
    \/ \E args \in { <<>>, <<I64(1)>>, <<I64(2)>> } :
          /\ Total(ReceivedQueries) < PlaceholderCalls
          /\ smt # Nil /\ Len(smt[1].q) <= PlaceholderTextLen
          /\ QueryContext(args)
          /\ Alone

SpecPlaceholder == Init /\ [][NextPlaceholder]_vars

\* C21: on both execution paths the text matched against the patterns is
\* the normalized text of the statement with its placeholders intact, so
\* the entry returned is the one FindResponse selects for that text and the
\* arguments; a pattern holding a literal value does not match a statement
\* that has a placeholder there.
PlaceholdersIntactAsStated ==
    [][ StatementStep
          => /\ ret'.query = normalize(smt[1].q)
             /\ ret'.resp = Select(fr, Mocks, smt[1].q, ret'.args) ]_vars

\* C25: executing a statement leaves the text the statement stores as it
\* was, so every execution, a second one through QueryContext with other
\* arguments included, resolves the placeholder text with its own
\* arguments: the text handed to FindResponse is the stored text and the
\* received key is that text completed with the arguments of the call.
StatementTextKeptAsStated ==
    [][ StatementStep
          => /\ smt' = smt
             /\ ret'.raw = smt[1].q
             /\ ret'.key = completeStatement(normalize(smt[1].q), ret'.args) ]_vars

\* =========================================================================
\* The ledger: received, triggered and unmatched counts.
\* =========================================================================
\* The sum of TriggeredTimes over the entries of the list.
RECURSIVE TriggeredTotal(_, _)
TriggeredTotal(h, mocks) ==
    IF mocks = <<>> THEN 0
    ELSE h[Head(mocks)].TriggeredTimes + TriggeredTotal(h, Tail(mocks))

\* C23: in every state that registrations, setter calls and resolutions
\* reach from a Reset, the received counts sum to the TriggeredTimes of the
\* registered entries plus the unmatched counts, and no key has a higher
\* unmatched count than received count.
LedgerBalanced ==
    /\ Total(ReceivedQueries) =
          TriggeredTotal(fr, Mocks) + Total(NoMatchingQueries)
    /\ \A k \in DOMAIN NoMatchingQueries :
          NoMatchingQueries[k] <= Count(ReceivedQueries, k)

\* After a Reset that dropped a triggered entry, an entry registered anew
\* has answered one resolution and another resolution matched nothing.
LedgerBalancedWitness ==
    /\ ~PanicOnEmptyResponse
    /\ ret.op = "FindResponse"
    /\ Total(ReceivedQueries) = 2
    /\ Total(NoMatchingQueries) = 1
    /\ \E a \in 1..Len(fr) :
          /\ \E i \in 1..Len(Mocks) : Mocks[i] = a
          /\ fr[a].TriggeredTimes = 1
    /\ \E b \in 1..Len(fr) :
          /\ \A i \in 1..Len(Mocks) : Mocks[i] # b
          /\ fr[b].TriggeredTimes > 0

\* =========================================================================
\* A failed execution has consumed its resolution.
\* =========================================================================
\* Entries allocated, and executions between two Resets, in SpecConsume.
ConsumeEntries == 2
ConsumeCalls == 2

NextConsume ==
    \/ Len(fr) < ConsumeEntries /\ NewMock /\ Alone
    \/ Reset /\ Alone
    \/ \E a \in 1..Len(fr) : OneTime(a) /\ Alone
    \/ \E a \in 1..Len(fr) : WithExecException(a) /\ Alone
    \/ \E a \in 1..Len(fr) : WithQueryException(a) /\ Alone
    \/ \E q \in { <<"SELECT", " ", "a">>, <<"DELETE", " ", "a">> } :
          Prepare(q) /\ Alone
    \/ Total(ReceivedQueries) < ConsumeCalls /\ ExecContext(<<>>, 1) /\ Alone
    \/ Total(ReceivedQueries) < ConsumeCalls /\ QueryContext(<<>>) /\ Alone

SpecConsume == Init /\ [][NextConsume]_vars

\* C24: an execution that fails with the injected broken-connection error
\* has consumed its resolution: the received count of its key went up by
\* one, and the entry it resolved to was eligible, is now marked Triggered
\* and has its TriggeredTimes raised by one; so a Once entry fails an
\* execution only as the first match of its life, and later executions do
\* not resolve to it.
FailureConsumes ==
    [][ (StatementStep /\ BrokenConnection)
          => /\ ret'.resp \in 1..Len(fr)
             /\ RaisedByOne(ReceivedQueries, ReceivedQueries', ret'.key)
             /\ ~(fr[ret'.resp].Once /\ fr[ret'.resp].Triggered)
             /\ EntryOfStep.Triggered
             /\ EntryOfStep.TriggeredTimes = fr[ret'.resp].TriggeredTimes + 1
             /\ EntryOfStep.Once => EntryOfStep.TriggeredTimes = 1
             /\ EntriesKept({ret'.resp}) ]_vars

\* The same statement was executed twice: a Once entry with a trigger
\* failed the first execution, and the second one fell through to the
\* no-match default or to another entry and did not fail.
FailureConsumesWitness ==
    /\ ret.op \in {"ExecContext", "QueryContext"}
    /\ ret.kind \notin {"error", "panic", "none"}
    /\ Count(ReceivedQueries, ret.key) = 2
    /\ \E a \in 1..Len(fr) :
          /\ a # ret.resp
          /\ \E i \in 1..Len(Mocks) : Mocks[i] = a
          /\ fr[a].Once /\ fr[a].Triggered /\ fr[a].TriggeredTimes = 1
          /\ IF ret.op = "ExecContext" THEN ExecFails(fr[a]) ELSE QueryFails(fr[a])
          /\ isQueryMatch(fr[a], ret.query)

\* =========================================================================
\* The mutex of an entry.
\* =========================================================================
\* WithQuery(query) on the entry at address a, lines 250-251: fr.mu.Lock()
WithQueryLock(t, a, query) ==
    /\ th[t].pc = "idle"
    /\ a \in 1..Len(fr)
    /\ fr[a].mu = 0
    /\ fr' = [fr EXCEPT ![a].mu = t]
    /\ th' = [th EXCEPT ![t] = [@ EXCEPT !.pc = "WithQuery:Pattern",
                                         !.query = query, !.tmp = <<a>>]]
    /\ UNCHANGED <<catcher, smt, ret, Logging, mu>>

\* lines 252-253: fr.Pattern = normalize(query), and the deferred Unlock.
WithQueryWrite(t) ==
    /\ th[t].pc = "WithQuery:Pattern"
    /\ fr' = [fr EXCEPT ![th[t].tmp[1]] =
                [SetPattern(@, th[t].query) EXCEPT !.mu = 0]]
    /\ th' = [th EXCEPT ![t] = [@ EXCEPT !.pc = "idle", !.query = <<>>,
                                         !.tmp = <<>>]]
    /\ UNCHANGED <<catcher, smt, ret, Logging, mu>>

\* The scan of FindResponse, lines 85-94, entry by entry; tmp lists the
\* entries the loop has passed.  Line 85-86 and 232: the next entry is
\* taken and IsMatch locks it; past the last entry the loop ends.
IsMatchLock(t) ==
    /\ th[t].pc = "FindResponse:scan"
    /\ IF Len(th[t].tmp) >= Len(Mocks)
       THEN /\ th' = [th EXCEPT ![t] = [@ EXCEPT !.pc = "FindResponse:unmatched",
                                                 !.tmp = <<>>]]
            /\ UNCHANGED fr
       ELSE LET resp == Mocks[Len(th[t].tmp) + 1]
            IN  /\ fr[resp].mu = 0
                /\ fr' = [fr EXCEPT ![resp].mu = t]
                /\ th' = [th EXCEPT ![t] = [@ EXCEPT !.pc = "FindResponse:IsMatch",
                                                     !.out = resp]]
    /\ UNCHANGED <<catcher, smt, ret, Logging, mu>>

\* lines 231-239: IsMatch, isQueryMatch and isArgsMatch each read the entry
\* between a Lock and an Unlock of its mutex; the three sections read
\* different fields and are taken as one.
IsMatchUnlock(t) ==
    /\ th[t].pc = "FindResponse:IsMatch"
    /\ LET resp == th[t].out
       IN  /\ fr' = [fr EXCEPT ![resp].mu = 0]
           /\ th' = [th EXCEPT ![t] =
                        IF IsMatch(fr[resp], th[t].query, th[t].args)
                        THEN [@ EXCEPT !.pc = "FindResponse:MarkAsTriggered",
                                       !.tmp = <<>>]
                        ELSE [@ EXCEPT !.pc = "FindResponse:scan",
                                       !.tmp = Append(@, resp), !.out = <<>>]]
    /\ UNCHANGED <<catcher, smt, ret, Logging, mu>>

\* MarkAsTriggered, lines 243-244.
MarkAsTriggeredLock(t) ==
    /\ th[t].pc = "FindResponse:MarkAsTriggered"
    /\ fr[th[t].out].mu = 0
    /\ fr' = [fr EXCEPT ![th[t].out].mu = t]
    /\ th' = [th EXCEPT ![t] = [@ EXCEPT !.pc = "FindResponse:Triggered"]]
    /\ UNCHANGED <<catcher, smt, ret, Logging, mu>>

\* line 245, and the deferred Unlock.
MarkAsTriggeredUnlock(t) ==
    /\ th[t].pc = "FindResponse:Triggered"
    /\ fr' = [fr EXCEPT ![th[t].out] = [MarkAsTriggered(@) EXCEPT !.mu = 0]]
    /\ th' = [th EXCEPT ![t] = [@ EXCEPT !.pc = "FindResponse:TriggeredTimes"]]
    /\ UNCHANGED <<catcher, smt, ret, Logging, mu>>

\* lines 91-92: resp.TriggeredTimes++; return resp, and the deferred Unlock
\* of the registry mutex.
FindResponseCount(t) ==
    /\ th[t].pc = "FindResponse:TriggeredTimes"
    /\ fr' = [fr EXCEPT ![th[t].out].TriggeredTimes = @ + 1]
    /\ Unlock(t)
    /\ th' = [th EXCEPT ![t] = [@ EXCEPT !.pc = "idle",
                                         !.got = Append(@, th[t].out)]]
    /\ UNCHANGED <<catcher, smt, ret, Logging>>

\* Entries allocated, and FindResponse calls of one goroutine, in SpecEntry.
EntryEntries == 2
EntryCalls == 1

\* Entries are registered and given an expectation while no goroutine is
\* inside a call; the goroutines set patterns, resolve "s a" and ask for
\* the report at the same time.
NextEntry ==
    \/ /\ \A t \in Goroutines : th[t].pc = "idle" /\ th[t].got = <<>>
       /\ Len(fr) < EntryEntries
       /\ NewMock
       /\ Alone
    \/ \E a \in 1..Len(fr) :
          /\ \A t \in Goroutines : th[t].pc = "idle" /\ th[t].got = <<>>
          /\ WithExpectedTriggerTimes(a, 1)
          /\ Alone
    \/ \E t \in Goroutines, a \in 1..Len(fr), p \in { <<"s">>, <<"s", " ", "a">> } :
          WithQueryLock(t, a, p)
    \/ \E t \in Goroutines : WithQueryWrite(t)
    \/ \E t \in Goroutines :
          Len(th[t].got) < EntryCalls /\ FindResponseLock(t, <<"s", " ", "a">>, <<>>)
    \/ \E t \in Goroutines : FindResponseRead(t)
    \/ \E t \in Goroutines : FindResponseWrite(t)
    \/ \E t \in Goroutines : FindResponseSort(t)
    \/ \E t \in Goroutines : IsMatchLock(t)
    \/ \E t \in Goroutines : IsMatchUnlock(t)
    \/ \E t \in Goroutines : MarkAsTriggeredLock(t)
    \/ \E t \in Goroutines : MarkAsTriggeredUnlock(t)
    \/ \E t \in Goroutines : FindResponseCount(t)
    \/ \E t \in Goroutines : FindResponseUnmatched(t)
    \/ \E t \in Goroutines : ExpectationLock(t)
    \/ \E t \in Goroutines : ExpectationScan(t)

SpecEntry == Init /\ [][NextEntry]_vars

\* The entries the comparator of the sort reads the Pattern of: those it
\* compares with an entry of the same MatchPriority (lines 78-81).
ComparedByPattern ==
    { a \in Registered :
        \E b \in Registered : b # a /\ fr[b].MatchPriority = fr[a].MatchPriority }

\* The entries whose Pattern, Triggered flag or TriggeredTimes the step that
\* goroutine t takes next reads or writes.
Touched(t) ==
    CASE th[t].pc = "WithQuery:Pattern" -> { th[t].tmp[1] }
      [] th[t].pc = "FindResponse:sort" -> ComparedByPattern
      [] th[t].pc \in {"FindResponse:IsMatch", "FindResponse:Triggered",
                       "FindResponse:TriggeredTimes"} -> { th[t].out }
      [] th[t].pc = "Expectation:scan" ->
            { a \in Registered : fr[a].ExpectedTriggeredTimes # 0 }
      [] OTHER -> {}

\* C22: every read and write of an entry's Pattern, Triggered flag and
\* TriggeredTimes, by WithQuery, by IsMatch and MarkAsTriggered, by the
\* comparator of the sort, by the increment of the counter and by
\* ExpectationOfTriggeredTimesIsMeet, is made by a goroutine that holds the
\* mutex of that entry.
EntryLockedAsStated ==
    \A t \in Goroutines : \A a \in Touched(t) : fr[a].mu = t

====
